---- MODULE Spec2Model ----
(***************************************************************************)
(* State-machine model of the MCP context manager (mcpContextManager.js,   *)
(* kept as src/unnamed/part_005): the in-memory Map of context objects,    *)
(* its async operations and the periodic expiry sweep.                     *)
(*                                                                         *)
(* Execution model (Node.js event loop): an async method runs             *)
(* synchronously up to its first `await`; the code after the await is a   *)
(* microtask.  createContext, getContext and deleteContext contain no     *)
(* await, so each is one atomic step.  updateContext awaits getContext,   *)
(* so it is two steps (the call, running getContext; and the resumption), *)
(* between which other callers' synchronous code may run.  The sweep is a *)
(* setInterval callback (a macrotask): it runs only when no microtask is  *)
(* pending.  Every synchronous segment reads the clock once.              *)
(***************************************************************************)
EXTENDS Integers, Sequences, FiniteSets, TLC

\* ------------------------------------------------------------------ bounds
NumProcs == 2    \* caller tasks that may have an updateContext call in flight
MaxTime == 3     \* the clock Date.now() runs over 0..MaxTime

\* ------------------------------------------------- configuration (scaled)
ttlMs == 1              \* mcpConfig.context.ttlMs (3600000 ms, scaled)
cacheTtlMs == 2         \* mcpConfig.sap.cacheTtlMs (300000 ms, scaled)
defaultMaxTokens == 3   \* mcpConfig.context.maxTokens (8192, scaled)

Ids == {1, 2}           \* the ids crypto.randomUUID() can draw
Procs == 1..NumProcs

null == 0                \* JavaScript null / undefined where a reference is expected
undefined == [type |-> "undefined"]   \* an absent argument

\* ------------------------------------------------------- message entries
\* A content payload is a string (a sequence of characters) or a structured
\* value (here: an array of one-digit numbers).
Str(s) == [type |-> "string", val |-> s]
Arr(a) == [type |-> "object", val |-> a]

RECURSIVE Join(_)
\* the elements of a, each one character, separated by commas
Join(a) ==
  IF a = <<>> THEN <<>>
  ELSE IF Len(a) = 1 THEN <<a[1]>>
  ELSE <<a[1], ",">> \o Join(Tail(a))

\* JSON.stringify of an array of one-digit numbers: "[1,2,3]"
JSONstringify(a) == <<"[">> \o Join(a) \o <<"]">>

\* const contentStr = typeof item.content === 'string' ? item.content
\*                                        : JSON.stringify(item.content)
contentStr(item) ==
  IF item.content.type = "string" THEN item.content.val
  ELSE JSONstringify(item.content.val)

\* Math.ceil(n / 4)
CeilDiv4(n) == (n + 3) \div 4

\* Math.ceil(contentStr.length / 4): the per-entry size estimate
estimateSize(item) == CeilDiv4(Len(contentStr(item)))

RECURSIVE SumSizes(_)
\* context.contents.reduce((count, item) => count + estimateSize(item), 0)
SumSizes(contents) ==
  IF contents = <<>> THEN 0
  ELSE estimateSize(Head(contents)) + SumSizes(Tail(contents))

\* The entries callers pass: "abcd" (4 characters, 1 token) and [1,2]
\* (serialized "[1,2]", 5 characters, 2 tokens)
P1 == [role |-> "user",      content |-> Str(<<"a", "b", "c", "d">>)]
P2 == [role |-> "assistant", content |-> Arr(<<1, 2>>)]
Payloads == {P1, P2}

\* createContext's options: maxTokens 0 stands for an absent (falsy) value
MaxTokensOptions == {0, 1, 2}
Models == {"gpt-4"}
noModel == ""            \* options.model absent (undefined: falsy, like '')

\* ------------------------------------------------- the model dispatcher
\* mcpConfig.models.providers.*.models, one model each (scaled)
supportedModels ==
  [openai |-> {"gpt-4"}, anthropic |-> {"claude-2.1"}, ollama |-> {"llama2"}]

\* the model ids callers pass: one that openai lists and one no provider lists
ModelIds == {"gpt-4", "x"}

\* this.providers as the constructor builds it (mcpModels.js:16-31), in the
\* order Object.entries goes over it
loadedProviders ==
  << [name |-> "openai", supportedModels |-> supportedModels.openai],
     [name |-> "anthropic", supportedModels |-> supportedModels.anthropic],
     [name |-> "ollama", supportedModels |-> supportedModels.ollama] >>

\* the model ids resolution is asked for
LookupIds == ModelIds \cup {"claude-2.1"}

\* mutant of Scan: the loop goes on after a match, the last match wins
RECURSIVE ScanLast(_, _)
ScanLast(entries, modelId) ==
  IF entries = <<>> THEN "none"
  ELSE IF modelId \in entries[Len(entries)].supportedModels
       THEN entries[Len(entries)].name
       ELSE ScanLast(SubSeq(entries, 1, Len(entries) - 1), modelId)

\* the for loop of getProviderForModel (lines 40-44) over the entries left
\* to visit; "none" where the code throws 'No provider found' (line 46)
RECURSIVE Scan(_, _)
Scan(entries, modelId) ==
  IF entries = <<>> THEN "none"
  ELSE IF modelId \in Head(entries).supportedModels THEN Head(entries).name
       ELSE Scan(Tail(entries), modelId)

\* query / prompt texts: the empty text stands for an absent (falsy) prompt
noPrompt == <<>>
Texts == {<<"h", "i">>}

\* { role: 'user', content: query } (mcpModels.js:162-165, 235-238)
UserMessage(text) == [role |-> "user", content |-> Str(text)]

\* the provider's reply texts: "ok" (1 token) and "hello" (2 tokens)
ReplyTexts == {<<"o", "k">>, <<"h", "e", "l", "l", "o">>}

\* responseMessage: { role: 'assistant', content } (mcpModels.js:312-315)
responseMessage(content) == [role |-> "assistant", content |-> Str(content)]

VARIABLES
  contexts,         \* this.contexts: Map from context id to context object (null: no entry)
  heap,             \* the context objects, by reference
  cleanupInterval,  \* this.cleanupInterval: TRUE while the timer is set
  now,              \* Date.now()
  calls,            \* per caller task: the updateContext call suspended at its await
  result,           \* the outcome of the call or sweep that completed last
  deleted,          \* history: per id, deleteContext(id) has returned true
  window,           \* history: per context, the entries that overlapping
                    \* updateContext calls have appended, in order
  requests,         \* per caller task: its query / generate call in progress
  batch,            \* history: per context, the replies that overlapping
                    \* query / generate calls have appended, in order
  providers,        \* McpModels' this.providers, in Object.entries order
  answers,          \* history: per model id, what getProviderForModel has
                    \* answered so far
  res,              \* the HTTP response McpServer sent last
  isRunning,        \* McpServer's this.isRunning
  process,          \* "running"; "shutdown" while shutdown() awaits
                    \* mcpServer.stop(); "exit0" / "exit1" after process.exit
  sapQuery,         \* the query text handed to McpSapAdapter.processSapQuery
  routed,           \* what processSapQuery made of it: intent, parameters,
                    \* the method its switch calls
  sapOrders,        \* the SAP backend: per purchase order id, whether it
                    \* holds that order
  cache,            \* this.cache.purchaseOrders: per id, null or the cached
                    \* order with its _cachedAt
  sapCalls,         \* per caller task: its adapter call awaiting SAP
  sapResult,        \* what the adapter call that completed last returned
  poDeleted,        \* history: per id, deletePurchaseOrder(id) has returned true
  apiKeys,          \* McpAuth's this.apiKeys: per key, absent or its keyInfo
  authOutcome,      \* what the McpAuth method called last did: for
                    \* authenticate a status code or "next", else what the
                    \* method returned
  revoked           \* history: per key, revokeApiKey(key) has returned true

vars == <<contexts, heap, cleanupInterval, now, calls, result, deleted, window,
          requests, batch, providers, answers, res, isRunning,
          process, sapQuery, routed, sapOrders, cache, sapCalls, sapResult,
          poDeleted, apiKeys, authOutcome, revoked>>

\* what the store's own methods leave alone
dispatcher == <<requests, batch>>

\* the provider registry
registry == <<providers, answers>>

\* what neither the store nor query and generate touch
\* the server process
lifecycle == <<isRunning, process>>

\* the SAP adapter and the API key store
adapter == <<sapQuery, routed, sapOrders, cache, sapCalls, sapResult, poDeleted>>
auth == <<apiKeys, authOutcome, revoked>>
beyond == <<adapter, auth>>

\* the context store but for its clock
store == <<contexts, heap, cleanupInterval, calls, result, deleted, window>>

periphery == <<registry, res, lifecycle, beyond>>

\* nothing has gone through processSapQuery yet
NotRouted == [intent |-> "none", parameters |-> [limit |-> 0], method |-> "none"]

\* purchase order ids (PurchaseOrder numbers)
PoIds == {1, 2}

\* this.cache.purchaseOrders has no entry for an id; an entry as
\* getPurchaseOrders leaves it (no _cachedAt); an entry stamped at time t
NoEntry == [present |-> FALSE, stamped |-> FALSE, cachedAt |-> 0]
Unstamped == [present |-> TRUE, stamped |-> FALSE, cachedAt |-> 0]
Stamped(t) == [present |-> TRUE, stamped |-> TRUE, cachedAt |-> t]

\* no adapter call has completed yet
NoSapResult == [op |-> "none", id |-> null, status |-> "none", source |-> "none"]

\* API keys: the server's own (mcpConfig.security.apiKey) and the keys
\* crypto.randomBytes can draw
serverKey == "k0"
Keys == {"k0", "k1", "k2"}
NoKey == [tag |-> "absent"]
ServerKeyInfo == [isValid |-> TRUE, scopes |-> {"*"}]

\* no McpAuth method has been called yet
NoOutcome == [op |-> "none", key |-> "none", status |-> "none"]

\* res.status(code).json({status, ...})
NoResponse == [code |-> 0, status |-> "none"]
Success == [code |-> 200, status |-> "success"]
Created == [code |-> 201, status |-> "success"]
BadRequest == [code |-> 400, status |-> "error"]
NotFound == [code |-> 404, status |-> "error"]
Failure == [code |-> 500, status |-> "error"]

\* getProviderForModel(modelId): the name of the first provider that lists
\* the model, "none" where the code throws 'No provider found'
getProviderForModel(modelId) == Scan(providers, modelId)

Unused == [tag |-> "unused"]    \* an id randomUUID has not drawn yet
Freed == [tag |-> "freed"]      \* an object nothing refers to any more
idle == [pc |-> "idle"]

IsObject(o) == o # Unused /\ o # Freed

\* this.contexts.has(contextId)
has(contextId) == contexts[contextId] # null

\* the caller tasks whose updateContext holds a reference to object ref
Holders(k, ref) == {p \in Procs : k[p].pc = "await" /\ k[p].context = ref}

\* the caller tasks whose query / generate call holds context object ref
Active(r, ref) == {p \in Procs : r[p].pc # "idle" /\ r[p].context = ref}

\* Garbage collection: an object that is neither in the Map nor referenced
\* by a suspended updateContext, query or generate is unreachable.
Collect(h, c, k) ==
  [i \in Ids |->
     IF /\ IsObject(h[i])
        /\ c[i] # i
        /\ Holders(k, i) = {}
        /\ Active(requests, i) = {}
     THEN Freed ELSE h[i]]

\* The history variable window.  An overlap window of a context opens with
\* an updateContext call made while no other call on it is in flight, and
\* closes when the last call in flight resumes.  Once two calls overlap,
\* window records the entries the window's calls append, in the order the
\* calls resume; pure is FALSE once a call of the window was no append, or
\* was made after another call of the window had resumed (the calls of a
\* pure window were all in flight together).
NoWindow == [payloads |-> <<>>, pure |-> TRUE]
Impure == [payloads |-> <<>>, pure |-> FALSE]

WindowAtCall(context) ==
  IF context = null THEN window
  ELSE IF Holders(calls, context) = {}
  THEN [window EXCEPT ![context] = NoWindow]
  ELSE IF window[context] # NoWindow
  THEN [window EXCEPT ![context] = Impure]
  ELSE window

WindowAtResume(p) ==
  LET c == calls[p]
      w == window[c.context]
      overlap == Holders(calls, c.context) # {p} \/ w # NoWindow IN
  IF c.context = null THEN window
  ELSE IF ~overlap THEN window
  ELSE IF c.operation = "append" /\ w.pure
  THEN [window EXCEPT ![c.context].payloads = Append(w.payloads, c.content)]
  ELSE [window EXCEPT ![c.context] = Impure]

\* the windows of collected objects are forgotten
Forget(w, h) == [i \in Ids |-> IF h[i] = Freed THEN NoWindow ELSE w[i]]

\* The history variable batch.  A batch of query / generate calls on a
\* context opens with a call made while no other is in progress on it and
\* closes when the last of them has returned.  It records the replies its
\* calls append, in order; evicted, whether an update of the context evicted
\* an entry while the batch was open; left, whether a call of the batch has
\* returned.  pure is FALSE once a call of the batch failed, a call joined
\* after one had returned (the calls of a pure batch were all in progress
\* together), or the context was replaced or cleared meanwhile.
NoBatch == [replies |-> <<>>, pure |-> TRUE, evicted |-> FALSE, left |-> FALSE]
ImpureBatch == [replies |-> <<>>, pure |-> FALSE, evicted |-> FALSE, left |-> FALSE]

BatchAtCall(context) ==
  IF context = null THEN batch
  ELSE IF Active(requests, context) = {}
  THEN [batch EXCEPT ![context] = NoBatch]
  ELSE IF batch[context].left
  THEN [batch EXCEPT ![context] = ImpureBatch]
  ELSE batch

BatchAtReturn(p, i, failed) ==
  IF i = null THEN batch
  ELSE IF failed \/ ~batch[i].pure THEN [batch EXCEPT ![i] = ImpureBatch]
  ELSE IF Active(requests, i) = {p} THEN batch
  ELSE [batch EXCEPT ![i].left = TRUE]

Init ==
  /\ contexts = [i \in Ids |-> null]
  /\ heap = [i \in Ids |-> Unused]
  /\ cleanupInterval = TRUE
  /\ now = 0
  /\ calls = [p \in Procs |-> idle]
  /\ result = [op |-> "none", value |-> "none"]
  /\ deleted = [i \in Ids |-> FALSE]
  /\ window = [i \in Ids |-> NoWindow]
  /\ requests = [p \in Procs |-> idle]
  /\ batch = [i \in Ids |-> NoBatch]
  /\ providers = loadedProviders
  /\ answers = [m \in LookupIds |-> {}]
  /\ res = NoResponse
  /\ isRunning = FALSE
  /\ process = "running"
  /\ sapQuery = <<>>
  /\ routed = NotRouted
  /\ sapOrders = [i \in PoIds |-> TRUE]
  /\ cache = [i \in PoIds |-> NoEntry]
  /\ sapCalls = [p \in Procs |-> idle]
  /\ sapResult = NoSapResult
  /\ poDeleted = [i \in PoIds |-> FALSE]
  /\ apiKeys = [k \in Keys |-> IF k = serverKey THEN ServerKeyInfo ELSE NoKey]
  /\ authOutcome = NoOutcome
  /\ revoked = [k \in Keys |-> FALSE]

\* ------------------------------------------------------------ operations

\* The context object createContext builds (lines 38-47)
NewContext(contextId, model, maxTokens, contents) ==
  [id |-> contextId,
   model |-> model,
   maxTokens |-> IF maxTokens # 0 THEN maxTokens ELSE defaultMaxTokens,
   createdAt |-> now,
   updatedAt |-> now,
   expiresAt |-> now + ttlMs,
   tokenCount |-> 0,
   contents |-> contents]

\* async createContext(options): no await, one step.  contextId is the id
\* crypto.randomUUID() draws: one it has not drawn before.
createContext(contextId, model, maxTokens, contents) ==
  /\ heap[contextId] = Unused
  /\ heap' = [heap EXCEPT ![contextId] =
                NewContext(contextId, model, maxTokens, contents)]
  /\ contexts' = [contexts EXCEPT ![contextId] = contextId]
  /\ result' = [op |-> "create", value |-> "id"]
  /\ UNCHANGED <<cleanupInterval, now, calls, deleted, window>>

\* mutant of Touch: createdAt is stamped along with updatedAt
TouchCreatedAt(h, ref) ==
  IF ref = null THEN h
  ELSE [h EXCEPT ![ref].expiresAt = now + ttlMs,
                 ![ref].updatedAt = now,
                 ![ref].createdAt = now]

\* mutant of Touch: the expiry is slid from the last update, not from now
TouchFromUpdatedAt(h, ref) ==
  IF ref = null THEN h
  ELSE [h EXCEPT ![ref].expiresAt = h[ref].updatedAt + ttlMs,
                 ![ref].updatedAt = now]

\* getContext's effect on the object it found (lines 69-71)
Touch(h, ref) ==
  IF ref = null THEN h
  ELSE [h EXCEPT ![ref].expiresAt = now + ttlMs, ![ref].updatedAt = now]

\* async getContext(contextId): no await, one step
getContext(contextId) ==
  LET context == contexts[contextId] IN
  /\ heap' = Touch(heap, context)
  /\ result' = [op |-> "get", value |-> IF context = null THEN "null" ELSE "context"]
  /\ UNCHANGED <<contexts, cleanupInterval, now, calls, deleted, window>>

\* updateContext up to its await: the call runs getContext (line 84)
updateContextCall(p, contextId, operation, content) ==
  LET context == contexts[contextId] IN
  /\ calls[p] = idle
  /\ heap' = Touch(heap, context)
  /\ calls' = [calls EXCEPT ![p] =
                 IF context = null
                 THEN \* the content is never read again (line 86-88)
                      [pc |-> "await", id |-> contextId, operation |-> operation,
                       content |-> undefined, context |-> null]
                 ELSE [pc |-> "await", id |-> contextId, operation |-> operation,
                       content |-> content, context |-> context]]
  /\ window' = WindowAtCall(context)
  /\ UNCHANGED <<contexts, cleanupInterval, now, result, deleted>>

\* mutant of ApplyOperation: no break after the push, 'append' falls through
\* to 'replace'
ApplyOperationFallThrough(contents, operation, content) ==
  CASE operation = "append" -> <<content>>
    [] operation = "replace" -> <<content>>
    [] operation = "clear" -> <<>>

\* mutant of ApplyOperation: unshift in place of push
ApplyOperationUnshift(contents, operation, content) ==
  CASE operation = "append" -> <<content>> \o contents
    [] operation = "replace" -> <<content>>
    [] operation = "clear" -> <<>>

\* the switch on operation (lines 90-102); "merge" has no case
ApplyOperation(contents, operation, content) ==
  CASE operation = "append" -> Append(contents, content)
    [] operation = "replace" -> <<content>>
    [] operation = "clear" -> <<>>

\* mutant of EvictLoop: the estimate is lowered by one per evicted entry, not
\* by the entry's size
RECURSIVE EvictLoopByCount(_, _, _)
EvictLoopByCount(contents, tokenCount, maxTokens) ==
  IF tokenCount > maxTokens /\ Len(contents) > 0
  THEN EvictLoopByCount(Tail(contents), tokenCount - 1, maxTokens)
  ELSE [contents |-> contents, tokenCount |-> tokenCount]

\* mutant of EvictLoop: `if` in place of `while`, one entry evicted at most
EvictLoopOnce(contents, tokenCount, maxTokens) ==
  IF tokenCount > maxTokens /\ Len(contents) > 0
  THEN [contents |-> Tail(contents),
        tokenCount |-> tokenCount - estimateSize(Head(contents))]
  ELSE [contents |-> contents, tokenCount |-> tokenCount]

RECURSIVE EvictLoop(_, _, _)
\* while (tokenCount > maxTokens && contents.length > 0) { shift; subtract }
EvictLoop(contents, tokenCount, maxTokens) ==
  IF tokenCount > maxTokens /\ Len(contents) > 0
  THEN EvictLoop(Tail(contents),
                 tokenCount - estimateSize(Head(contents)), maxTokens)
  ELSE [contents |-> contents, tokenCount |-> tokenCount]

\* lines 104-121: recompute the estimate, then evict if it exceeds the limit
Evict(contents, maxTokens) ==
  LET tokenCount == SumSizes(contents) IN
  IF tokenCount > maxTokens
  THEN EvictLoop(contents, tokenCount, maxTokens)
  ELSE [contents |-> contents, tokenCount |-> tokenCount]

\* the context object after lines 90-124
Updated(context, operation, content) ==
  LET e == Evict(ApplyOperation(context.contents, operation, content),
                 context.maxTokens) IN
  [context EXCEPT !.contents = e.contents, !.tokenCount = e.tokenCount,
                  !.updatedAt = now, !.expiresAt = now + ttlMs]

\* the operations the switch has a case for (lines 91-99)
Operations == {"append", "replace", "clear"}

\* mutant of Throws: the operation is validated before the record is looked up
ThrowsBeforeLookup(context, operation) == operation \notin Operations

\* the call throws 'Unknown context operation' (line 101): reached only with
\* a record in hand, after the return of line 86-88
Throws(context, operation) == context # null /\ operation \notin Operations

\* updateContext after its await (lines 86-130)
updateContextResume(p) ==
  LET c == calls[p]
      k == [calls EXCEPT ![p] = idle] IN
  /\ c.pc = "await"
  /\ calls' = k
  /\ IF Throws(c.context, c.operation)
     THEN /\ result' = [op |-> "update", value |-> "threw"]
          /\ heap' = Collect(heap, contexts, k)
          /\ window' = Forget(WindowAtResume(p), heap')
          /\ UNCHANGED contexts
     ELSE IF c.context = null
     THEN /\ result' = [op |-> "update", value |-> "null"]
          /\ UNCHANGED <<contexts, heap, window>>
     ELSE /\ heap' = [heap EXCEPT ![c.context] =
                        Updated(heap[c.context], c.operation, c.content)]
          /\ contexts' = [contexts EXCEPT ![c.id] = c.context]
          /\ result' = [op |-> "update", value |-> "context"]
          /\ window' = WindowAtResume(p)
  /\ UNCHANGED <<cleanupInterval, now, deleted>>

\* async deleteContext(contextId): no await, one step
deleteContext(contextId) ==
  /\ IF ~has(contextId)
     THEN /\ result' = [op |-> "delete", value |-> "false"]
          /\ UNCHANGED <<contexts, heap, deleted, window>>
     ELSE /\ contexts' = [contexts EXCEPT ![contextId] = null]
          /\ heap' = Collect(heap, contexts', calls)
          /\ window' = Forget(window, heap')
          /\ deleted' = [deleted EXCEPT ![contextId] = TRUE]
          /\ result' = [op |-> "delete", value |-> "true"]
  /\ UNCHANGED <<cleanupInterval, now, calls>>

\* mutant of IsExpired: <= in place of <
IsExpiredLe(context, t) == context.expiresAt <= t

\* mutant of IsExpired: the comparison inverted
IsExpiredInverted(context, t) == context.expiresAt > t

\* if (context.expiresAt < now) (line 157)
IsExpired(context, t) == context.expiresAt < t

\* the keys cleanupExpiredContexts deletes when it runs at time t
Expired(t) == {i \in Ids : has(i) /\ IsExpired(heap[contexts[i]], t)}

\* cleanupExpiredContexts(), the setInterval callback: a macrotask, so it
\* runs only when no updateContext continuation is pending
cleanupExpiredContexts ==
  /\ cleanupInterval
  /\ \A p \in Procs : calls[p] = idle /\ requests[p].pc \in {"idle", "provider"}
  /\ contexts' = [i \in Ids |-> IF i \in Expired(now) THEN null ELSE contexts[i]]
  /\ heap' = Collect(heap, contexts', calls)
  /\ window' = Forget(window, heap')
  /\ result' = [op |-> "cleanup",     \* expiredCount > 0 (line 163)
                value |-> IF Expired(now) # {} THEN "cleaned" ELSE "none"]
  /\ UNCHANGED <<cleanupInterval, now, calls, deleted>>

\* mutant of afterStop: a second stop() sets the timer again
afterStopRearmed(timer) == ~timer

\* this.cleanupInterval after the body of stop() (lines 172-175): cleared
\* if it was set, left null if it was not
afterStop(timer) == IF timer THEN FALSE ELSE timer

\* stop(): clearInterval; may be called with the timer already cleared
stop ==
  /\ cleanupInterval' = afterStop(cleanupInterval)
  /\ result' = [op |-> "stop", value |-> "returned"]
  /\ UNCHANGED <<contexts, heap, now, calls, deleted, window>>

\* the clock advances
Tick ==
  /\ now < MaxTime
  /\ now' = now + 1
  /\ UNCHANGED <<contexts, heap, cleanupInterval, calls, result, deleted, window>>

\* ---------------------------------------------- query and generate
\* (mcpModels.js).  Both await getContext when given a contextId, then await
\* the provider's HTTP call, then await updateContext: four segments.

\* The error query / generate throw between the lookup and the provider call,
\* in the order of the code: getProviderForModel (lines 152, 224) comes
\* before generate's test of prompt and context (lines 239-241).
Rejection(kind, prompt, model, contents) ==
  IF getProviderForModel(model) = "none" THEN "No provider found"
  ELSE IF kind = "generate" /\ prompt = noPrompt /\ contents = <<>>
  THEN "Either prompt or non-empty context is required"
  ELSE "none"

\* mutant of Messages: the user message is put in front of the contents
MessagesUserFirst(kind, prompt, contents) ==
  (IF kind = "query" \/ prompt # noPrompt
   THEN <<UserMessage(prompt)>> ELSE <<>>) \o contents

\* const messages (lines 155-165, 227-238): the context's contents, then the
\* user message (query: always; generate: if a prompt is given)
Messages(kind, prompt, contents) ==
  contents \o (IF kind = "query" \/ prompt # noPrompt
               THEN <<UserMessage(prompt)>> ELSE <<>>)

\* the heap once a query / generate call is over and the caller tasks hold
\* only what r says: the context object the call held may be unreachable
Release(r) ==
  [i \in Ids |->
     IF /\ IsObject(heap[i])
        /\ contexts[i] # i
        /\ Holders(calls, i) = {}
        /\ Active(r, i) = {}
     THEN Freed ELSE heap[i]]

\* lines 151-181 / 223-257: up to the provider's axios.post, which is issued
\* unless the call throws first
Prepare(p, kind, prompt, model, id, context) ==
  LET contents == IF context = null THEN <<>> ELSE heap[context].contents
      error == Rejection(kind, prompt, model, contents) IN
  IF error # "none"
  THEN /\ result' = [op |-> kind, value |-> error]
       /\ requests' = [requests EXCEPT ![p] = idle]
       /\ batch' = BatchAtReturn(p, context, TRUE)
       /\ heap' = Release(requests')
  ELSE /\ requests' = [requests EXCEPT ![p] =
                         [pc |-> "provider", kind |-> kind, id |-> id,
                          context |-> context, posts |-> 1, abandoned |-> FALSE,
                          messages |-> Messages(kind, prompt, contents)]]
       /\ UNCHANGED <<result, batch, heap>>

\* query / generate up to the first await: with a contextId, getContext
\* runs (lines 144-145, 216-217)
Dispatch(p, kind, contextId, prompt, model) ==
  /\ requests[p] = idle
  /\ calls[p] = idle
  /\ IF contextId # null
     THEN LET context == contexts[contextId] IN
          /\ heap' = Touch(heap, context)
          /\ requests' = [requests EXCEPT ![p] =
                IF context = null
                THEN \* prompt and model are never read again (lines 146-148)
                     [pc |-> "getContext", kind |-> kind, id |-> contextId,
                      context |-> null, prompt |-> noPrompt, model |-> ""]
                ELSE [pc |-> "getContext", kind |-> kind, id |-> contextId,
                      context |-> context, prompt |-> prompt, model |-> model]]
          /\ batch' = BatchAtCall(context)
          /\ UNCHANGED result
     ELSE Prepare(p, kind, prompt, model, null, null)
  /\ UNCHANGED <<contexts, cleanupInterval, now, calls, deleted, window>>

\* async query(options)
query(p, contextId, text, model) == Dispatch(p, "query", contextId, text, model)

\* async generate(options)
generate(p, contextId, prompt, model) ==
  Dispatch(p, "generate", contextId, prompt, model)

\* query / generate resumed after `await getContext` (lines 146-181, 218-257)
afterGetContext(p) ==
  LET r == requests[p] IN
  /\ r.pc = "getContext"
  /\ IF r.context = null
     THEN /\ result' = [op |-> r.kind, value |-> "Context not found"]
          /\ requests' = [requests EXCEPT ![p] = idle]
          /\ UNCHANGED <<batch, heap>>
     ELSE Prepare(p, r.kind, r.prompt, r.model, r.id, r.context)
  /\ UNCHANGED <<contexts, cleanupInterval, now, calls, deleted, window>>

\* what the caller of a query / generate learns when the call settles: an
\* abandoned caller's socket is gone, res.json reaches nobody
Settle(r, outcome) ==
  IF r.abandoned THEN result ELSE [op |-> "provider", value |-> outcome]

\* The caller gives up while the provider call is in flight: the HTTP
\* server's timeout (part_003:589-593) destroys the caller's socket.  The
\* handler and its query / generate are not told: axios.post has no timeout
\* and no abort signal (lines 295-304), the await goes on.
callerTimeout(p) ==
  LET r == requests[p] IN
  /\ r.pc = "provider"
  /\ ~r.abandoned
  /\ requests' = [requests EXCEPT ![p].abandoned = TRUE]
  /\ result' = [op |-> "provider", value |-> "abandoned"]
  /\ UNCHANGED <<contexts, heap, cleanupInterval, now, calls, deleted, window,
                 batch>>

\* mutant of ReplyEntry: the last message sent (the user's) is stored
ReplyEntryUser(messages, response) == messages[Len(messages)]

\* the entry query / generate hand to updateContext (lines 185, 261)
ReplyEntry(messages, response) == response

\* the provider answers (callOpenAI and its like return, lines 306-320);
\* with a contextId, updateContext is called (lines 184-185, 260-261)
providerResponds(p, content) ==
  LET r == requests[p] IN
  /\ r.pc = "provider"
  /\ IF r.id # null
     THEN /\ updateContextCall(p, r.id, "append",
                               ReplyEntry(r.messages, responseMessage(content)))
          /\ requests' = [requests EXCEPT ![p] =
                [pc |-> "updateContext", id |-> r.id, context |-> r.context,
                 abandoned |-> r.abandoned,
                 \* history: the record was gone when the provider answered
                 gone |-> r.context # null /\ ~has(r.id)]]
          /\ UNCHANGED batch
     ELSE /\ result' = Settle(r, "response")
          /\ requests' = [requests EXCEPT ![p] = idle]
          /\ UNCHANGED <<contexts, heap, cleanupInterval, now, calls, deleted,
                         window, batch>>

\* the task after a provider error: the catch blocks rethrow (lines 322-325,
\* 190-193, 266-269), the call is over
OnFailure(r) == idle

\* the provider call fails (axios.post rejects)
providerFails(p) ==
  LET r == requests[p] IN
  /\ r.pc = "provider"
  /\ requests' = [requests EXCEPT ![p] = OnFailure(r)]
  /\ result' = Settle(r, "Failed to call API")
  /\ batch' = BatchAtReturn(p, r.context, TRUE)
  /\ heap' = Release(requests')
  /\ UNCHANGED <<contexts, cleanupInterval, now, calls, deleted, window>>

\* query / generate resumed after `await updateContext`: return response
\* (lines 188, 264)
afterUpdateContext(p) ==
  LET r == requests[p] IN
  /\ r.pc = "updateContext"
  /\ calls[p] = idle
  /\ result' = Settle(r, "response")
  /\ requests' = [requests EXCEPT ![p] = idle]
  /\ batch' = BatchAtReturn(p, r.context, FALSE)
  /\ heap' = Release(requests')
  /\ UNCHANGED <<contexts, cleanupInterval, now, calls, deleted, window>>

\* batch after caller task p's updateContext has resumed
BatchAtResume(p) ==
  LET c == calls[p]
      i == c.context IN
  IF i = null \/ Throws(i, c.operation) THEN batch
  ELSE IF Active(requests, i) = {} THEN [batch EXCEPT ![i] = NoBatch]
  ELSE IF ~batch[i].pure \/ c.operation # "append"
  THEN [batch EXCEPT ![i] = ImpureBatch]
  ELSE LET full == ApplyOperation(heap[i].contents, c.operation, c.content)
           left == Evict(full, heap[i].maxTokens).contents IN
       [batch EXCEPT
          ![i].evicted = @ \/ Len(left) < Len(full),
          ![i].replies = IF requests[p].pc = "updateContext"
                         THEN Append(@, c.content) ELSE @]

\* The store over its lifetime: callers on every id, one updateContext call
\* in flight at a time, entries of one token, the clock and the sweep timer.
LifetimeArgs ==
  {<<"append", P1>>, <<"merge", undefined>>}

Next ==
  \/ \E i \in Ids, m \in Models, c \in {<<>>, <<P1>>} :
       createContext(i, m, 1, c) /\ UNCHANGED <<dispatcher, periphery>>
  \/ \E i \in Ids : getContext(i) /\ UNCHANGED <<dispatcher, periphery>>
  \/ \E i \in Ids, a \in LifetimeArgs :
       updateContextCall(1, i, a[1], a[2]) /\ UNCHANGED <<dispatcher, periphery>>
  \/ updateContextResume(1) /\ UNCHANGED <<dispatcher, periphery>>
  \/ \E i \in Ids : deleteContext(i) /\ UNCHANGED <<dispatcher, periphery>>
  \/ cleanupExpiredContexts /\ UNCHANGED <<dispatcher, periphery>>
  \/ stop /\ UNCHANGED <<dispatcher, periphery>>
  \/ Tick /\ UNCHANGED <<dispatcher, periphery>>

Spec == Init /\ [][Next]_vars

\* Scheduling: the clock advances, a suspended updateContext is resumed (the
\* microtask queue is drained), and the interval timer keeps firing between
\* the bursts of microtasks for as long as it is set.
Fairness ==
  /\ WF_vars(Tick /\ UNCHANGED <<dispatcher, periphery>>)
  /\ WF_vars(updateContextResume(1) /\ UNCHANGED <<dispatcher, periphery>>)
  /\ SF_vars(cleanupExpiredContexts /\ UNCHANGED <<dispatcher, periphery>>)

\* The store over its lifetime with the callers' choices narrowed to what
\* keeps a record alive or lets it go: contexts created empty, and appends.
NextLive ==
  \/ \E i \in Ids, m \in Models :
       createContext(i, m, 1, <<>>) /\ UNCHANGED <<dispatcher, periphery>>
  \/ \E i \in Ids : getContext(i) /\ UNCHANGED <<dispatcher, periphery>>
  \/ \E i \in Ids :
       updateContextCall(1, i, "append", P1) /\ UNCHANGED <<dispatcher, periphery>>
  \/ updateContextResume(1) /\ UNCHANGED <<dispatcher, periphery>>
  \/ \E i \in Ids : deleteContext(i) /\ UNCHANGED <<dispatcher, periphery>>
  \/ cleanupExpiredContexts /\ UNCHANGED <<dispatcher, periphery>>
  \/ stop /\ UNCHANGED <<dispatcher, periphery>>
  \/ Tick /\ UNCHANGED <<dispatcher, periphery>>

LiveSpec == Init /\ [][NextLive]_vars /\ Fairness

\* Concurrent updateContext calls on one context at one instant: every
\* caller task, entries of every size, each budget.
TheId == CHOOSE i \in Ids : \A j \in Ids : i <= j

ConcurrentArgs ==
  ({"append", "replace"} \X Payloads)
    \cup {<<"clear", undefined>>, <<"merge", undefined>>}

\* createContext's options {model, maxTokens, contents}: every budget with
\* and without initial contents, and options that hold no model
CreateOptions ==
  (Models \X MaxTokensOptions \X {<<>>, <<P2, P2>>}) \cup {<<noModel, 1, <<>>>>}

NextCalls ==
  \/ \E o \in CreateOptions :
       createContext(TheId, o[1], o[2], o[3]) /\ UNCHANGED <<dispatcher, periphery>>
  \/ \E p \in Procs, a \in ConcurrentArgs :
       updateContextCall(p, TheId, a[1], a[2]) /\ UNCHANGED <<dispatcher, periphery>>
  \/ \E p \in Procs : updateContextResume(p) /\ UNCHANGED <<dispatcher, periphery>>
  \/ deleteContext(TheId) /\ UNCHANGED <<dispatcher, periphery>>

SpecCalls == Init /\ [][NextCalls]_vars

\* Queries and generations on one context that go through: two caller
\* tasks (query with a text, generate without a prompt), a listed model,
\* replies of either size, the provider failing or not, a caller appending to
\* the context or deleting it meanwhile.
Tasks == {1, 2}
DispatchOptions == {<<m, t>> : m \in Models, t \in {0, 2}}

NextModels ==
  \/ \E o \in DispatchOptions :
       createContext(TheId, o[1], o[2], <<>>) /\ UNCHANGED <<dispatcher, periphery>>
  \/ \E p \in Tasks, t \in Texts, m \in Models : query(p, TheId, t, m) /\ UNCHANGED periphery
  \/ \E p \in Tasks, m \in Models : generate(p, TheId, noPrompt, m) /\ UNCHANGED periphery
  \/ \E p \in Tasks : afterGetContext(p) /\ UNCHANGED periphery
  \/ \E p \in Tasks, content \in ReplyTexts : providerResponds(p, content) /\ UNCHANGED periphery
  \/ \E p \in Tasks : providerFails(p) /\ UNCHANGED periphery
  \/ \E p \in Tasks :
       /\ updateContextResume(p)
       /\ batch' = BatchAtResume(p)
       /\ UNCHANGED <<requests, periphery>>
  \/ \E p \in Tasks : afterUpdateContext(p) /\ UNCHANGED periphery
  \/ \E p \in Tasks :
       /\ requests[p] = idle
       /\ updateContextCall(p, TheId, "append", P1)
       /\ UNCHANGED <<dispatcher, periphery>>
  \/ deleteContext(TheId) /\ UNCHANGED <<dispatcher, periphery>>

SpecModels == Init /\ [][NextModels]_vars

\* Queries and generations that may be turned down: one caller task, with
\* and without a contextId and a prompt, listed and unlisted models, a
\* context with and without contents, deleted or left to expire, a caller
\* that gives up waiting.
NextReject ==
  \/ \E m \in Models, c \in {<<>>, <<P1>>} :
       createContext(TheId, m, 1, c) /\ UNCHANGED <<dispatcher, periphery>>
  \/ \E c \in {null, TheId}, t \in Texts, m \in ModelIds : query(1, c, t, m) /\ UNCHANGED periphery
  \/ \E c \in {null, TheId}, t \in Texts \cup {noPrompt}, m \in ModelIds :
       generate(1, c, t, m) /\ UNCHANGED periphery
  \/ afterGetContext(1) /\ UNCHANGED periphery
  \/ \E content \in ReplyTexts : providerResponds(1, content) /\ UNCHANGED periphery
  \/ providerFails(1) /\ UNCHANGED periphery
  \/ callerTimeout(1) /\ UNCHANGED periphery
  \/ /\ updateContextResume(1)
     /\ batch' = BatchAtResume(1)
     /\ UNCHANGED <<requests, periphery>>
  \/ afterUpdateContext(1) /\ UNCHANGED periphery
  \/ deleteContext(TheId) /\ UNCHANGED <<dispatcher, periphery>>
  \/ cleanupExpiredContexts /\ UNCHANGED <<dispatcher, periphery>>
  \/ Tick /\ UNCHANGED <<dispatcher, periphery>>

SpecReject == Init /\ [][NextReject]_vars

\* Provider resolution over registries: each provider lists any of the
\* listed models, a model may be listed by several providers or by none.
ListedModels == {"gpt-4", "claude-2.1"}

Registries ==
  {<<[name |-> "openai", supportedModels |-> a],
     [name |-> "anthropic", supportedModels |-> b],
     [name |-> "ollama", supportedModels |-> c]>> :
     a \in SUBSET ListedModels, b \in SUBSET ListedModels,
     c \in SUBSET ListedModels}

InitRegistry ==
  /\ contexts = [i \in Ids |-> null]
  /\ heap = [i \in Ids |-> Unused]
  /\ cleanupInterval = TRUE
  /\ now = 0
  /\ calls = [p \in Procs |-> idle]
  /\ result = [op |-> "none", value |-> "none"]
  /\ deleted = [i \in Ids |-> FALSE]
  /\ window = [i \in Ids |-> NoWindow]
  /\ requests = [p \in Procs |-> idle]
  /\ batch = [i \in Ids |-> NoBatch]
  /\ providers \in Registries
  /\ answers = [m \in LookupIds |-> {}]
  /\ res = NoResponse
  /\ isRunning = FALSE
  /\ process = "running"
  /\ sapQuery = <<>>
  /\ routed = NotRouted
  /\ sapOrders = [i \in PoIds |-> TRUE]
  /\ cache = [i \in PoIds |-> NoEntry]
  /\ sapCalls = [p \in Procs |-> idle]
  /\ sapResult = NoSapResult
  /\ poDeleted = [i \in PoIds |-> FALSE]
  /\ apiKeys = [k \in Keys |-> IF k = serverKey THEN ServerKeyInfo ELSE NoKey]
  /\ authOutcome = NoOutcome
  /\ revoked = [k \in Keys |-> FALSE]

\* a call of getProviderForModel(modelId) (lines 39-47)
resolve(modelId) ==
  /\ result' = [op |-> "resolve", value |-> getProviderForModel(modelId)]
  /\ answers' = [answers EXCEPT ![modelId] = @ \cup {result'.value}]
  /\ UNCHANGED <<contexts, heap, cleanupInterval, now, calls, deleted, window,
                 dispatcher, providers, res, lifecycle, beyond>>

NextRegistry == \E m \in LookupIds : resolve(m)

SpecRegistry == InitRegistry /\ [][NextRegistry]_vars

\* ------------------------------------------------ the HTTP handlers
\* (McpServer, part_003).  One request at a time on caller task 1.

\* POST /context
httpCreateContext(model, contents) ==
  IF model = noModel
  THEN /\ res' = BadRequest
       /\ UNCHANGED <<contexts, heap, cleanupInterval, now, calls, result,
                      deleted, window>>
  ELSE /\ createContext(TheId, model, 0, contents)
       /\ res' = Created

\* GET /context/:contextId
httpGetContext(contextId) ==
  /\ getContext(contextId)
  /\ res' = IF result'.value = "null" THEN NotFound ELSE Success

\* PUT /context/:contextId up to `await this.contextManager.updateContext`;
\* an absent operation is "", an absent content undefined
httpUpdateContext(contextId, operation, content) ==
  /\ requests[1] = idle
  /\ calls[1] = idle
  /\ IF operation = "" \/ content = undefined
     THEN /\ res' = BadRequest
          /\ UNCHANGED <<contexts, heap, cleanupInterval, now, calls, result,
                         deleted, window>>
     ELSE /\ updateContextCall(1, contextId, operation, content)
          /\ UNCHANGED res

\* PUT /context/:contextId resumed: 200 with whatever updateContext
\* returned, 500 when it threw (lines 229-240)
httpUpdateContextResume ==
  /\ requests[1] = idle
  /\ updateContextResume(1)
  /\ res' = IF result'.value = "threw" THEN Failure ELSE Success

\* DELETE /context/:contextId
httpDeleteContext(contextId) ==
  /\ deleteContext(contextId)
  /\ res' = IF result'.value = "false" THEN NotFound ELSE Success

\* the response when the query / generate of task 1 has settled in this
\* step: 200 with the result, 500 from the catch block (lines 300-316, 331-346)
Responds ==
  IF requests'[1] # idle THEN res
  ELSE IF result'.value = "response" THEN Success ELSE Failure

\* POST /query with a text that is no SAP query
handleQuery(contextId, text, model) ==
  IF text = noPrompt
  THEN /\ requests[1] = idle
       /\ calls[1] = idle
       /\ res' = BadRequest
       /\ UNCHANGED <<contexts, heap, cleanupInterval, now, calls, result,
                      deleted, window, dispatcher>>
  ELSE /\ query(1, contextId, text, model)
       /\ res' = Responds

\* POST /generate
handleGeneration(contextId, prompt, model) ==
  IF prompt = noPrompt /\ contextId = null
  THEN /\ requests[1] = idle
       /\ calls[1] = idle
       /\ res' = BadRequest
       /\ UNCHANGED <<contexts, heap, cleanupInterval, now, calls, result,
                      deleted, window, dispatcher>>
  ELSE /\ generate(1, contextId, prompt, model)
       /\ res' = Responds

\* Requests on one context id, stored or not, well-formed or not.
UpdateBodies ==
  {<<"append", P1>>, <<"merge", P1>>, <<"", P1>>, <<"append", undefined>>}

NextHttp ==
  \/ \E m \in Models \cup {noModel}, c \in {<<>>, <<P1>>} :
       httpCreateContext(m, c) /\ UNCHANGED <<dispatcher, registry, lifecycle, beyond>>
  \/ httpGetContext(TheId) /\ UNCHANGED <<dispatcher, registry, lifecycle, beyond>>
  \/ \E b \in UpdateBodies :
       httpUpdateContext(TheId, b[1], b[2]) /\ UNCHANGED <<dispatcher, registry, lifecycle, beyond>>
  \/ httpUpdateContextResume /\ UNCHANGED <<dispatcher, registry, lifecycle, beyond>>
  \/ httpDeleteContext(TheId) /\ UNCHANGED <<dispatcher, registry, lifecycle, beyond>>
  \/ \E c \in {null, TheId}, t \in Texts \cup {noPrompt}, m \in Models :
       handleQuery(c, t, m) /\ UNCHANGED <<registry, lifecycle, beyond>>
  \/ \E c \in {null, TheId}, t \in Texts \cup {noPrompt}, m \in Models :
       handleGeneration(c, t, m) /\ UNCHANGED <<registry, lifecycle, beyond>>
  \/ afterGetContext(1) /\ res' = Responds /\ UNCHANGED <<registry, lifecycle, beyond>>
  \/ \E content \in ReplyTexts :
       providerResponds(1, content) /\ res' = Responds /\ UNCHANGED <<registry, lifecycle, beyond>>
  \/ providerFails(1) /\ res' = Responds /\ UNCHANGED <<registry, lifecycle, beyond>>
  \/ /\ requests[1].pc = "updateContext"
     /\ updateContextResume(1)
     /\ batch' = BatchAtResume(1)
     /\ UNCHANGED <<requests, periphery>>
  \/ afterUpdateContext(1) /\ res' = Responds /\ UNCHANGED <<registry, lifecycle, beyond>>
  \/ cleanupExpiredContexts /\ UNCHANGED <<dispatcher, periphery>>
  \/ Tick /\ UNCHANGED <<dispatcher, periphery>>

SpecHttp == Init /\ [][NextHttp]_vars

\* ------------------------------------------------ start and shutdown
\* (mcpModels.js:476-541, McpServer.start / stop in part_003)

\* the server.listen callback of McpServer.start (part_003:596-598)
start ==
  /\ process = "running"
  /\ ~isRunning
  /\ isRunning' = TRUE
  /\ UNCHANGED <<contexts, heap, cleanupInterval, now, calls, result, deleted,
                 window, process>>

\* shutdown() after `await mcpServer.stop()` has resolved (lines 532-536):
\* mcpContextManager.stop(), process.exit(0)
shutdownResume ==
  /\ stop
  /\ process' = "exit0"

\* a signal handler calls shutdown(signal) (lines 500-520): it awaits
\* mcpServer.stop(), which returns at once when the server is not running
\* (part_003:616-619) and waits for server.close otherwise
shutdown ==
  /\ process = "running"
  /\ IF ~isRunning
     THEN shutdownResume /\ UNCHANGED isRunning
     ELSE /\ process' = "shutdown"
          /\ UNCHANGED <<contexts, heap, cleanupInterval, now, calls, result,
                         deleted, window, isRunning>>

\* the server.close callback without error, or the 10 s force-close timer
\* (part_003:622-641): isRunning = false, stop() resolves, shutdown resumes
serverClosed ==
  /\ process = "shutdown"
  /\ isRunning' = FALSE
  /\ shutdownResume

\* the server.close callback with an error: stop() rejects, shutdown's
\* catch block exits with 1 (lines 537-540)
serverCloseFails ==
  /\ process = "shutdown"
  /\ process' = "exit1"
  /\ UNCHANGED <<contexts, heap, cleanupInterval, now, calls, result, deleted,
                 window, isRunning>>

\* nothing runs in a process that has exited
Exited == process \in {"exit0", "exit1"}

\* The process from start to exit: one context, the clock, the sweep timer,
\* stop() called any number of times, a shutdown at any moment.
NextShutdown ==
  \/ /\ ~Exited
     /\ \E m \in Models : createContext(TheId, m, 1, <<>>)
     /\ UNCHANGED <<dispatcher, periphery>>
  \/ ~Exited /\ getContext(TheId) /\ UNCHANGED <<dispatcher, periphery>>
  \/ ~Exited /\ deleteContext(TheId) /\ UNCHANGED <<dispatcher, periphery>>
  \/ ~Exited /\ cleanupExpiredContexts /\ UNCHANGED <<dispatcher, periphery>>
  \/ ~Exited /\ Tick /\ UNCHANGED <<dispatcher, periphery>>
  \/ ~Exited /\ stop /\ UNCHANGED <<dispatcher, periphery>>
  \/ start /\ UNCHANGED <<dispatcher, registry, res, beyond>>
  \/ shutdown /\ UNCHANGED <<dispatcher, registry, res, beyond>>
  \/ serverClosed /\ UNCHANGED <<dispatcher, registry, res, beyond>>
  \/ serverCloseFails /\ UNCHANGED <<dispatcher, registry, res, beyond>>

SpecShutdown == Init /\ [][NextShutdown]_vars

\* ------------------------------------------- the SAP adapter: intents
\* (part_004:78-178).  A query text is a sequence of words: the words that
\* extractQueryIntent's includes() calls and regular expressions look for,
\* two of them capitalised, and a word they do not look for.

MaxWords == 4    \* a query text has at most MaxWords words

Words == {"purchase order", "PO", "number", "7", "8", "get", "search for",
          "in", "Supplier", "product", "hello"}

Queries == UNION {[1..n -> Words] : n \in 0..MaxWords}

\* mcpConfig.sap.maxResultsPerRequest
maxResultsPerRequest == 100

\* String.prototype.toLowerCase
toLowerCase(queryText) ==
  [n \in 1..Len(queryText) |->
     CASE queryText[n] = "PO" -> "po"
       [] queryText[n] = "Supplier" -> "supplier"
       [] OTHER -> queryText[n]]

\* text.includes(a) || text.includes(b) || ...
includes(text, words) == \E n \in 1..Len(text) : text[n] \in words

\* \d+
Digits == {"7", "8"}

\* where /purchase order (\d+)|po (\d+)|po number (\d+)/ matches in text
idMatch(text) ==
  {n \in 1..Len(text) :
     \/ /\ text[n] \in {"purchase order", "po"}
        /\ n + 1 <= Len(text)
        /\ text[n + 1] \in Digits
     \/ /\ text[n] = "po"
        /\ n + 2 <= Len(text)
        /\ text[n + 1] = "number"
        /\ text[n + 2] \in Digits}

\* the first of a set of positions
First(positions) == CHOOSE n \in positions : \A m \in positions : n <= m

\* idMatch[1] || idMatch[2] || idMatch[3] of the leftmost match
idGroup(text) ==
  LET n == First(idMatch(text))
  IN  IF text[n + 1] \in Digits THEN text[n + 1] ELSE text[n + 2]

\* the alternatives that end the lazy group of the search expression
Delimiters == {"in", "related to", "from", "with", "containing"}

\* where /search for (.+?)( in| related to| from| with| containing|$)/
\* matches in text: the group needs at least one character
searchMatch(text) ==
  {n \in 1..Len(text) : text[n] = "search for" /\ n + 1 <= Len(text)}

\* searchMatch[1].trim() of the leftmost match: the lazy group ends before
\* the first delimiter that leaves it non-empty, or at the end of the text
searchGroup(text) ==
  LET n == First(searchMatch(text))
      stops == {m \in (n + 2)..Len(text) : text[m] \in Delimiters}
  IN  SubSeq(text, n + 1, IF stops = {} THEN Len(text) ELSE First(stops) - 1)

\* the return statement extractQueryIntent ends with when no template
\* matched (part_004:174-177)
DefaultIntentUnhandled ==
  [intent |-> "unknown", parameters |-> [limit |-> maxResultsPerRequest]]

DefaultIntent ==
  [intent |-> "getPurchaseOrders",
   parameters |-> [limit |-> maxResultsPerRequest]]

extractQueryIntent(queryText) ==
  LET normalizedQuery == toLowerCase(queryText)
  IN  IF /\ includes(normalizedQuery, {"purchase order"})
         /\ includes(normalizedQuery, {"get", "show", "list"})
      THEN IF idMatch(normalizedQuery) # {}
           THEN [intent |-> "getPurchaseOrderById",
                 parameters |-> [id |-> idGroup(normalizedQuery)]]
           ELSE IF searchMatch(normalizedQuery) # {}
           THEN [intent |-> "searchPurchaseOrders",
                 parameters |-> [searchTerm |-> searchGroup(normalizedQuery)]]
           ELSE [intent |-> "getPurchaseOrders",
                 parameters |-> [limit |-> maxResultsPerRequest]]
      ELSE IF includes(normalizedQuery, {"supplier", "vendor"})
      THEN [intent |-> "getSuppliers",
            parameters |-> [limit |-> maxResultsPerRequest]]
      ELSE IF includes(normalizedQuery, {"material", "product"})
      THEN [intent |-> "getMaterials",
            parameters |-> [limit |-> maxResultsPerRequest]]
      ELSE DefaultIntent

\* the switch of processSapQuery: the adapter method each intent calls, or
\* the message of its default branch
switch(intent) ==
  CASE intent = "getPurchaseOrders" -> "getPurchaseOrders"
    [] intent = "getPurchaseOrderById" -> "getPurchaseOrderById"
    [] intent = "searchPurchaseOrders" -> "searchPurchaseOrders"
    [] intent = "getSuppliers" -> "getSuppliers"
    [] intent = "getMaterials" -> "getMaterials"
    [] OTHER -> "Unknown SAP query intent"

\* processSapQuery(query) up to the await of the method it calls
processSapQuery ==
  /\ LET extracted == extractQueryIntent(sapQuery)
     IN  routed' = [intent |-> extracted.intent,
                    parameters |-> extracted.parameters,
                    method |-> switch(extracted.intent)]
  /\ UNCHANGED <<store, now, dispatcher, registry, res, lifecycle, auth>>
  /\ UNCHANGED <<sapQuery, sapOrders, cache, sapCalls, sapResult, poDeleted>>

InitIntent ==
  /\ contexts = [i \in Ids |-> null]
  /\ heap = [i \in Ids |-> Unused]
  /\ cleanupInterval = TRUE
  /\ now = 0
  /\ calls = [p \in Procs |-> idle]
  /\ result = [op |-> "none", value |-> "none"]
  /\ deleted = [i \in Ids |-> FALSE]
  /\ window = [i \in Ids |-> NoWindow]
  /\ requests = [p \in Procs |-> idle]
  /\ batch = [i \in Ids |-> NoBatch]
  /\ providers = loadedProviders
  /\ answers = [m \in LookupIds |-> {}]
  /\ res = NoResponse
  /\ isRunning = FALSE
  /\ process = "running"
  /\ sapQuery \in Queries
  /\ routed = NotRouted
  /\ sapOrders = [i \in PoIds |-> TRUE]
  /\ cache = [i \in PoIds |-> NoEntry]
  /\ sapCalls = [p \in Procs |-> idle]
  /\ sapResult = NoSapResult
  /\ poDeleted = [i \in PoIds |-> FALSE]
  /\ apiKeys = [k \in Keys |-> IF k = serverKey THEN ServerKeyInfo ELSE NoKey]
  /\ authOutcome = NoOutcome
  /\ revoked = [k \in Keys |-> FALSE]

NextIntent == processSapQuery

SpecIntent == InitIntent /\ [][NextIntent]_vars

\* --------------------------------------- the SAP adapter: order cache
\* (part_004:185-442).  Every adapter method sends one OData request and
\* awaits it (updatePurchaseOrder: the GET of getPurchaseOrderById unless
\* the cache answers, then a PUT).  A request is pending until SAP has
\* served it; the method resumes some time after that.

\* executeODataRequest(odataQuery, method, ...) sent by the adapter method
\* named caller
Request(method, caller, id) ==
  [pc |-> method, caller |-> caller, id |-> id, reply |-> "pending",
   results |-> {}]

\* the test of part_004:243-248: an entry, stamped, younger than cacheExpiry
CacheHit(id) ==
  /\ cache[id].present
  /\ cache[id].stamped
  /\ now - cache[id].cachedAt < cacheTtlMs

\* a method has returned (or thrown) to its caller
Returns(op, id, status, source) ==
  sapResult' = [op |-> op, id |-> id, status |-> status, source |-> source]

\* getPurchaseOrders(options) up to its await (part_004:185-213)
getPurchaseOrders(p) ==
  /\ sapCalls[p] = idle
  /\ sapCalls' = [sapCalls EXCEPT ![p] = Request("LIST", "list", null)]
  /\ UNCHANGED <<sapOrders, cache, sapResult, poDeleted>>

\* getPurchaseOrderById(id) up to its return from the cache or its await
\* (part_004:240-259)
getPurchaseOrderById(p, id) ==
  /\ sapCalls[p] = idle
  /\ IF CacheHit(id)
       THEN /\ Returns("get", id, "success", "cache")
            /\ UNCHANGED sapCalls
       ELSE /\ sapCalls' = [sapCalls EXCEPT ![p] = Request("GET", "get", id)]
            /\ UNCHANGED sapResult
  /\ UNCHANGED <<sapOrders, cache, poDeleted>>

\* updatePurchaseOrder(id, updateData) up to its first request: the GET of
\* getPurchaseOrderById, or the PUT when the cache has answered
\* (part_004:378-395)
updatePurchaseOrder(p, id) ==
  /\ sapCalls[p] = idle
  /\ sapCalls' = [sapCalls EXCEPT ![p] =
                    IF CacheHit(id) THEN Request("PUT", "update", id)
                                    ELSE Request("GET", "update", id)]
  /\ UNCHANGED <<sapOrders, cache, sapResult, poDeleted>>

\* deletePurchaseOrder(id) up to its await (part_004:419-425)
deletePurchaseOrder(p, id) ==
  /\ sapCalls[p] = idle
  /\ sapCalls' = [sapCalls EXCEPT ![p] = Request("DELETE", "delete", id)]
  /\ UNCHANGED <<sapOrders, cache, sapResult, poDeleted>>

\* SAP serves the request of caller task p: 404 for an order it does not
\* hold, and a DELETE removes the order
sapServes(p) ==
  /\ sapCalls[p] # idle
  /\ sapCalls[p].reply = "pending"
  /\ LET call == sapCalls[p]
     IN  IF call.pc = "LIST"
           THEN /\ sapCalls' = [sapCalls EXCEPT ![p].reply = "ok",
                                  ![p].results = {i \in PoIds : sapOrders[i]}]
                /\ UNCHANGED sapOrders
           ELSE /\ sapCalls' = [sapCalls EXCEPT ![p].reply =
                                  IF sapOrders[call.id] THEN "ok" ELSE "404"]
                /\ sapOrders' = [sapOrders EXCEPT ![call.id] =
                                   IF call.pc = "DELETE" THEN FALSE ELSE @]
  /\ UNCHANGED <<cache, sapResult, poDeleted>>

\* the code after `await executeODataRequest` when the answer has arrived
sapResume(p) ==
  /\ sapCalls[p] # idle
  /\ sapCalls[p].reply # "pending"
  /\ LET call == sapCalls[p]
         ok == call.reply = "ok"
     IN  CASE call.pc = "LIST" ->
                \* part_004:216-228
                /\ cache' = [i \in PoIds |->
                               IF i \in call.results THEN Unstamped
                                                     ELSE cache[i]]
                /\ Returns("list", null, "success", "sap")
                /\ sapCalls' = [sapCalls EXCEPT ![p] = idle]
                /\ UNCHANGED poDeleted
           [] call.pc = "GET" /\ ok ->
                \* part_004:262-273, and part_004:381-395 for update
                /\ cache' = [cache EXCEPT ![call.id] = Stamped(now)]
                /\ IF call.caller = "get"
                     THEN /\ Returns("get", call.id, "success", "sap")
                          /\ sapCalls' = [sapCalls EXCEPT ![p] = idle]
                     ELSE /\ sapCalls' = [sapCalls EXCEPT ![p] =
                                            Request("PUT", "update", call.id)]
                          /\ UNCHANGED sapResult
                /\ UNCHANGED poDeleted
           [] call.pc = "GET" /\ ~ok ->
                \* part_004:275-284, and part_004:383-385 for update
                /\ IF call.caller = "get"
                     THEN Returns("get", call.id, "error", "none")
                     ELSE Returns("update", call.id, "null", "none")
                /\ sapCalls' = [sapCalls EXCEPT ![p] = idle]
                /\ UNCHANGED <<cache, poDeleted>>
           [] call.pc = "PUT" /\ ok ->
                \* part_004:398-405
                /\ cache' = [cache EXCEPT ![call.id] = Stamped(now)]
                /\ Returns("update", call.id, "success", "sap")
                /\ sapCalls' = [sapCalls EXCEPT ![p] = idle]
                /\ UNCHANGED poDeleted
           [] call.pc = "PUT" /\ ~ok ->
                \* part_004:407-410
                /\ Returns("update", call.id, "throws", "none")
                /\ sapCalls' = [sapCalls EXCEPT ![p] = idle]
                /\ UNCHANGED <<cache, poDeleted>>
           [] call.pc = "DELETE" /\ ok ->
                \* part_004:427-430
                /\ cache' = [cache EXCEPT ![call.id] = NoEntry]
                /\ poDeleted' = [poDeleted EXCEPT ![call.id] = TRUE]
                /\ Returns("delete", call.id, "true", "none")
                /\ sapCalls' = [sapCalls EXCEPT ![p] = idle]
           [] call.pc = "DELETE" /\ ~ok ->
                \* part_004:432-438
                /\ Returns("delete", call.id, "false", "none")
                /\ sapCalls' = [sapCalls EXCEPT ![p] = idle]
                /\ UNCHANGED <<cache, poDeleted>>
  /\ UNCHANGED sapOrders

\* what no adapter method touches
besidesOrders ==
  <<store, dispatcher, registry, res, lifecycle, sapQuery, routed, auth>>

NextSap ==
  \/ \E p \in Procs : getPurchaseOrders(p) /\ UNCHANGED <<now, besidesOrders>>
  \/ \E p \in Procs, id \in PoIds :
       getPurchaseOrderById(p, id) /\ UNCHANGED <<now, besidesOrders>>
  \/ \E p \in Procs, id \in PoIds :
       updatePurchaseOrder(p, id) /\ UNCHANGED <<now, besidesOrders>>
  \/ \E p \in Procs, id \in PoIds :
       deletePurchaseOrder(p, id) /\ UNCHANGED <<now, besidesOrders>>
  \/ \E p \in Procs : sapServes(p) /\ UNCHANGED <<now, besidesOrders>>
  \/ \E p \in Procs : sapResume(p) /\ UNCHANGED <<now, besidesOrders>>
  \/ Tick /\ UNCHANGED <<dispatcher, periphery>>

SpecSap == Init /\ [][NextSap]_vars

\* ------------------------------------------------------- API keys
\* (part_002).  McpAuth's methods have no await: one step each.

\* req.headers.authorization
NoHeader == [scheme |-> "none", key |-> "none"]
Headers ==
  {NoHeader} \cup [scheme : {"Bearer", "Basic"}, key : Keys]

\* req.path
Paths == {"/api/context", "/api/sap/purchase-orders", "/health"}

\* the scopes arrays generateApiKey is called with (the first is its default)
ScopeSets == {{"api:access"}, {"*"}, {"context:*"}, {"sap:access"}}

getScopeForPath(path) ==
  CASE path = "/api/sap/purchase-orders" -> "sap:access"
    [] path = "/api/context" -> "context:manage"
    [] OTHER -> "api:access"

\* requiredScope.split(':')[0] + ':*'
parentScope(requiredScope) ==
  CASE requiredScope = "sap:access" -> "sap:*"
    [] requiredScope = "context:manage" -> "context:*"
    [] OTHER -> "api:*"

hasScope(scopes, requiredScope) ==
  \/ "*" \in scopes
  \/ requiredScope \in scopes
  \/ parentScope(requiredScope) \in scopes

\* the test of part_002:85 with the validity flag left out
RejectsUnknownOnly(keyInfo) == keyInfo = NoKey

\* !keyInfo || !keyInfo.isValid (part_002:85)
Rejects(keyInfo) == keyInfo = NoKey \/ ~keyInfo.isValid

\* authenticate(req, res, next); authRequired is
\* mcpConfig.security.authRequired
authenticate(authRequired, authorization, path) ==
  /\ authOutcome' =
       [op |-> "authenticate", key |-> authorization.key,
        status |->
          IF ~authRequired THEN "next"
          ELSE IF authorization = NoHeader THEN "401"
          ELSE IF authorization.scheme # "Bearer" THEN "401"
          ELSE IF Rejects(apiKeys[authorization.key]) THEN "401"
          ELSE IF ~hasScope(apiKeys[authorization.key].scopes,
                            getScopeForPath(path)) THEN "403"
          ELSE "next"]
  /\ UNCHANGED <<apiKeys, revoked>>

\* generateApiKey(options): apiKey is the key crypto.randomBytes(32) draws,
\* one it has not drawn before
generateApiKey(apiKey, scopes) ==
  /\ apiKeys[apiKey] = NoKey
  /\ apiKeys' = [apiKeys EXCEPT ![apiKey] =
                   [isValid |-> TRUE, scopes |-> scopes]]
  /\ authOutcome' = [op |-> "generateApiKey", key |-> apiKey,
                     status |-> "returned"]
  /\ UNCHANGED revoked

\* revokeApiKey(apiKey)
revokeApiKey(apiKey) ==
  IF apiKeys[apiKey] = NoKey
    THEN /\ authOutcome' = [op |-> "revokeApiKey", key |-> apiKey,
                            status |-> "false"]
         /\ UNCHANGED <<apiKeys, revoked>>
    ELSE /\ apiKeys' = [apiKeys EXCEPT ![apiKey].isValid = FALSE]
         /\ revoked' = [revoked EXCEPT ![apiKey] = TRUE]
         /\ authOutcome' = [op |-> "revokeApiKey", key |-> apiKey,
                            status |-> "true"]

\* what no McpAuth method touches
besidesKeys == <<store, now, dispatcher, registry, res, lifecycle, adapter>>

NextAuth ==
  \/ \E authRequired \in BOOLEAN, authorization \in Headers, path \in Paths :
       authenticate(authRequired, authorization, path) /\ UNCHANGED besidesKeys
  \/ \E apiKey \in Keys, scopes \in ScopeSets :
       generateApiKey(apiKey, scopes) /\ UNCHANGED besidesKeys
  \/ \E apiKey \in Keys : revokeApiKey(apiKey) /\ UNCHANGED besidesKeys

SpecAuth == Init /\ [][NextAuth]_vars

\* ------------------------------------------------------------ properties

\* the entries of a sequence
Range(seq) == {seq[n] : n \in 1..Len(seq)}

\* tail is what is left of seq after dropping some of its first entries
IsSuffix(tail, seq) ==
  /\ Len(tail) <= Len(seq)
  /\ tail = SubSeq(seq, Len(seq) - Len(tail) + 1, Len(seq))

\* caller task p's updateContext resumes holding a context object and
\* performs operation op on it
Performs(p, ops) ==
  /\ calls[p].pc = "await"
  /\ calls[p].context # null
  /\ calls[p].operation \in ops
  /\ updateContextResume(p)

\* C1: after every completed updateContext 'append' or 'replace', the sum of
\* estimateSize over the context's contents is at most its maxTokens, unless
\* contents is a single entry that alone exceeds maxTokens.
C1_BudgetAfterUpdate ==
  [][\A p \in Procs :
       Performs(p, {"append", "replace"}) =>
         LET context == heap'[calls[p].context] IN
         \/ SumSizes(context.contents) <= context.maxTokens
         \/ /\ Len(context.contents) = 1
            /\ estimateSize(context.contents[1]) > context.maxTokens]_vars

\* C1 witness: an append has completed and left a context of two entries
\* exactly at its budget.
C1_Witness ==
  /\ result = [op |-> "update", value |-> "context"]
  /\ \E i \in Ids :
       /\ IsObject(heap[i])
       /\ heap[i].contents = <<P1, P2>>
       /\ heap[i].tokenCount = heap[i].maxTokens

\* C2 (as claimed): when appending an entry makes the estimate exceed the
\* budget, updateContext removes a strict prefix of the contents: what is left
\* is a suffix of the old contents followed by the new entry, in the same
\* order, and the new entry is never removed.
C2_EvictionKeepsNewest ==
  [][\A p \in Procs :
       LET context == heap[calls[p].context]
           full == Append(context.contents, calls[p].content) IN
       (Performs(p, {"append"}) /\ SumSizes(full) > context.maxTokens) =>
         LET left == heap'[calls[p].context].contents IN
         /\ IsSuffix(left, full)
         /\ Len(left) >= 1]_vars

\* What the code does instead: the same, but the new entry is removed as well
\* exactly when it alone exceeds the budget.
C2_EvictionOldestFirst ==
  [][\A p \in Procs :
       LET context == heap[calls[p].context]
           full == Append(context.contents, calls[p].content) IN
       (Performs(p, {"append"}) /\ SumSizes(full) > context.maxTokens) =>
         LET left == heap'[calls[p].context].contents IN
         /\ IsSuffix(left, full)
         /\ Len(left) < Len(full)
         /\ left = <<>> <=> estimateSize(calls[p].content) > context.maxTokens]_vars

\* the overlap window of context i has closed: at least two append calls
\* were in flight on it together, and all of them have completed
ClosedWindow(i) ==
  /\ IsObject(heap[i])
  /\ Holders(calls, i) = {}
  /\ window[i].pure
  /\ Len(window[i].payloads) >= 2

\* the payloads of the window's calls differ from each other
UniquePayloads(i) ==
  Cardinality(Range(window[i].payloads)) = Len(window[i].payloads)

\* each payload of the window fits the budget of context i on its own
EachFits(i) ==
  \A x \in Range(window[i].payloads) : estimateSize(x) <= heap[i].maxTokens

\* C3 (as claimed): once N concurrent appends on one live context, each with
\* a unique payload, have all completed, the N payloads are all in contents:
\* eviction has trimmed none of them.  (Stated for payloads that each fit the
\* budget alone: the eviction of an oversized entry, C2, plays no part.)
C3_AllAppendsPresent ==
  \A i \in Ids :
    (ClosedWindow(i) /\ UniquePayloads(i) /\ EachFits(i)) =>
      Range(window[i].payloads) \subseteq Range(heap[i].contents)

\* C3 (amended): once N concurrent appends on one live context have all
\* completed, the N payloads are the last N entries of contents, in the order
\* the calls resumed, provided the N payloads together fit the budget.
C3_AppendsThatFitPresent ==
  \A i \in Ids :
    (ClosedWindow(i) /\ SumSizes(window[i].payloads) <= heap[i].maxTokens) =>
      IsSuffix(window[i].payloads, heap[i].contents)

\* C3 witness: two caller tasks have appended concurrently, the payloads
\* differ, and the context holds exactly these payloads, at its budget.
C3_Witness ==
  \E i \in Ids :
    /\ ClosedWindow(i)
    /\ UniquePayloads(i)
    /\ P1 \in Range(window[i].payloads)
    /\ P2 \in Range(window[i].payloads)
    /\ heap[i].contents = window[i].payloads
    /\ heap[i].tokenCount = heap[i].maxTokens

\* an updateContext call on id i is in flight
InFlight(i) == \E p \in Procs : calls[p].pc = "await" /\ calls[p].id = i

\* C4 (as claimed): store operations on one id are atomic with respect to
\* each other, so once deleteContext(i) has returned true and no call on i is
\* in flight, the store holds no record for i (ids are never drawn twice).
C4_DeleteIsFinal ==
  \A i \in Ids : (deleted[i] /\ ~InFlight(i)) => ~has(i)

\* C5 (as claimed): getContext on a record whose expiresAt <= now reports
\* not-found and does not slide the record's expiry.
C5_ExpiredNotReturned ==
  [][\A i \in Ids :
       (has(i) /\ heap[contexts[i]].expiresAt <= now /\ getContext(i)) =>
         (result'.value = "null" /\ heap' = heap)]_vars

\* caller task p calls updateContext on id i
Calls(p, i) ==
  calls[p] = idle /\ calls'[p].pc = "await" /\ calls'[p].id = i

C8_SweepKeepsLive ==
  [][cleanupExpiredContexts =>
       \A i \in Ids :
         (has(i) /\ heap[contexts[i]].expiresAt > now) =>
           (contexts'[i] = contexts[i] /\ heap'[i] = heap[i])]_vars

\* C8 witness: a sweep has removed a record and has left one that expires
\* later than the time of the sweep.
C8_Witness ==
  /\ result = [op |-> "cleanup", value |-> "cleaned"]
  /\ \E i \in Ids : has(i) /\ heap[contexts[i]].expiresAt > now

\* C10 (as claimed): deleteContext(i) returns true once; every later
\* deleteContext(i) returns false.
C10_DeleteTrueOnce ==
  [][\A i \in Ids :
       (deleted[i] /\ deleteContext(i)) => result'.value = "false"]_vars

\* the expiry of record i has passed while the sweep timer is set
Overdue(i) ==
  has(i) /\ heap[contexts[i]].expiresAt < now /\ cleanupInterval

\* C9: while the sweep timer is set, no record stays in the store past its
\* expiry for ever: a record that is not read or updated again (which would
\* slide its expiry) is eventually removed.
C9_NoLeak == \A i \in Ids : []<>(~Overdue(i))

\* C9 witness: the clock has passed the expiry of a record, and the sweep,
\* its timer still set, has removed the record.
C9_Witness ==
  /\ result = [op |-> "cleanup", value |-> "cleaned"]
  /\ cleanupInterval
  /\ \E i \in Ids : heap[i] = Freed /\ ~deleted[i]

\* C11: updateContext on an id with no stored record returns null without
\* throwing, whatever the operation; neither the call nor its resumption adds
\* a record or changes one.
C11_MissingIdReturnsNull ==
  [][\A p \in Procs :
       /\ \A i \in Ids :
            (~has(i) /\ Calls(p, i)) =>
              (calls'[p].context = null /\ contexts' = contexts /\ heap' = heap)
       /\ (calls[p].pc = "await" /\ calls[p].context = null
            /\ updateContextResume(p)) =>
              /\ result' = [op |-> "update", value |-> "null"]
              /\ contexts' = contexts
              /\ heap' = heap]_vars

\* C11 witness: an updateContext on the id of a deleted record has returned
\* null while another record is stored.
C11_Witness ==
  /\ result = [op |-> "update", value |-> "null"]
  /\ \E i \in Ids : deleted[i] /\ ~has(i)
  /\ \E j \in Ids : has(j)

\* C12 (as claimed): updateContext on a stored record with an operation other
\* than append, replace or clear throws and leaves the record as it was before
\* the call: contents, tokenCount, updatedAt and expiresAt.
C12_RejectedLeavesUnchanged ==
  [][\A p \in Procs :
       /\ \A i \in Ids :
            (has(i) /\ Calls(p, i) /\ calls'[p].operation \notin Operations) =>
              heap'[contexts[i]] = heap[contexts[i]]
       /\ (calls[p].pc = "await" /\ Throws(calls[p].context, calls[p].operation)
            /\ updateContextResume(p)) =>
              /\ result' = [op |-> "update", value |-> "threw"]
              /\ IsObject(heap'[calls[p].context]) =>
                   heap'[calls[p].context] = heap[calls[p].context]]_vars

\* C13: after every completed updateContext (append, replace or clear) the
\* record's tokenCount is the sum of estimateSize over its contents, and no
\* other step changes the tokenCount of a record.
C13_TokenCountIsSum ==
  [][/\ \A p \in Procs :
          Performs(p, Operations) =>
            LET context == heap'[calls[p].context] IN
            context.tokenCount = SumSizes(context.contents)
     /\ \A i \in Ids :
          (/\ IsObject(heap[i])
           /\ IsObject(heap'[i])
           /\ heap'[i].tokenCount # heap[i].tokenCount) =>
            \E p \in Procs : Performs(p, Operations) /\ calls[p].context = i]_vars

\* C13 witness: an updateContext has completed on a context that holds two
\* entries of different sizes, with tokenCount their sum, at the budget.
C13_Witness ==
  /\ result = [op |-> "update", value |-> "context"]
  /\ \E i \in Ids :
       /\ IsObject(heap[i])
       /\ heap[i].contents = <<P2, P1>>
       /\ heap[i].tokenCount = SumSizes(<<P2, P1>>)
       /\ heap[i].tokenCount = heap[i].maxTokens

\* C14 (as claimed): the record createContext stores has tokenCount equal to
\* the sum of estimateSize over its initial contents.
C14_InitialEstimate ==
  [][\A i \in Ids :
       (heap[i] = Unused /\ IsObject(heap'[i])) =>
         heap'[i].tokenCount = SumSizes(heap'[i].contents)]_vars

\* C15 (as claimed): createContext without a model fails and has no side
\* effect: no record is added and no record changes.
C15_CreateNeedsModel ==
  [][\A i \in Ids, o \in CreateOptions :
       (o[1] = noModel /\ createContext(i, o[1], o[2], o[3])) =>
         (result'.value = "threw" /\ contexts' = contexts /\ heap' = heap)]_vars

\* caller task p calls query or generate with contextId i
Asks(p, i) ==
  requests[p] = idle /\ requests'[p].pc = "getContext" /\ requests'[p].id = i

\* the context of id i is past its expiry (under either reading of the
\* boundary expiresAt = now)
Lapsed(i) == has(i) /\ heap[contexts[i]].expiresAt < now

\* a query / generate call that found no context fails with the
\* context-not-found error: no provider call, no context created or changed
FailsNotFound(p) ==
  (requests[p].pc = "getContext" /\ requests[p].context = null
   /\ afterGetContext(p)) =>
    /\ result'.value = "Context not found"
    /\ requests'[p] = idle
    /\ contexts' = contexts
    /\ heap' = heap

\* C16 (as claimed): query and generate called with a contextId that does
\* not resolve to a live context (no record, or a record past its expiry)
\* find no context and fail with the context-not-found error before any
\* provider call, creating and changing no context.
C16_DeadContextFails ==
  [][\A p \in Procs :
       /\ \A i \in Ids :
            ((~has(i) \/ Lapsed(i)) /\ Asks(p, i)) =>
              (requests'[p].context = null /\ contexts' = contexts /\ heap' = heap)
       /\ FailsNotFound(p)]_vars

\* What the code does instead: the same for an id with no stored record only.
C16_MissingIdFails ==
  [][\A p \in Procs :
       /\ \A i \in Ids :
            (~has(i) /\ Asks(p, i)) =>
              (requests'[p].context = null /\ contexts' = contexts /\ heap' = heap)
       /\ FailsNotFound(p)]_vars

FailureSurfaces(p) ==
  /\ (requests[p].pc = "provider" /\ ~requests[p].abandoned /\ providerFails(p)) =>
       result' = [op |-> "provider", value |-> "Failed to call API"]
  /\ providerFails(p) =>
       /\ requests'[p] = idle
       /\ calls' = calls
       /\ contexts' = contexts
       /\ \A i \in Ids :
            has(i) =>
              /\ heap'[contexts[i]].contents = heap[contexts[i]].contents
              /\ heap'[contexts[i]].tokenCount = heap[contexts[i]].tokenCount
  /\ requests'[p].pc = "provider" => requests'[p].posts = 1

\* C18 (as claimed): a failed or abandoned provider call ends in an error
\* for the caller, is not issued again (one provider call per query /
\* generate) and mutates no context: after a failure, contents and
\* tokenCount of every record are as before, and the call a caller has
\* abandoned appends no reply.
C18_FailedOrAbandonedNoMutation ==
  [][\A p \in Procs :
       /\ FailureSurfaces(p)
       /\ (/\ requests[p].pc = "updateContext"
           /\ requests[p].abandoned
           /\ Performs(p, {"append"})) =>
            /\ heap'[calls[p].context].contents = heap[calls[p].context].contents
            /\ heap'[calls[p].context].tokenCount = heap[calls[p].context].tokenCount]_vars

\* What the code does: the same for the provider call that failed only.
C18_FailureSurfaces == [][\A p \in Procs : FailureSurfaces(p)]_vars

RECURSIVE IsSubSeq(_, _)
\* a is b with some entries left out
IsSubSeq(a, b) ==
  IF a = <<>> THEN TRUE
  ELSE IF b = <<>> THEN FALSE
  ELSE IF Head(a) = Head(b) THEN IsSubSeq(Tail(a), Tail(b))
  ELSE IsSubSeq(a, Tail(b))

\* the batch of context i has closed: at least two query / generate calls
\* were in progress on it together, their provider calls succeeded, all have
\* returned, and the context is still stored
ClosedBatch(i) ==
  /\ has(i)
  /\ ~deleted[i]
  /\ Active(requests, i) = {}
  /\ batch[i].pure
  /\ Len(batch[i].replies) >= 2

\* C19 (as claimed): after two concurrent query / generate calls on one
\* live context have both completed, both replies are in contents.
C19_BothRepliesPresent ==
  \A i \in Ids :
    ClosedBatch(i) => Range(batch[i].replies) \subseteq Range(heap[i].contents)

\* C19 (amended): the same, in the order the appends completed, provided no
\* entry had to be evicted while the calls ran; and no append overwrites an
\* entry: it leaves the current contents followed by the new entry, less what
\* eviction removed from the front (nothing, when the budget allows).
C19_RepliesPresentWithinBudget ==
  [][/\ \A i \in Ids :
          (ClosedBatch(i) /\ ~batch[i].evicted)' =>
            IsSubSeq(batch'[i].replies, heap'[i].contents)
     /\ \A p \in Procs :
          Performs(p, {"append"}) =>
            LET before == heap[calls[p].context]
                full == Append(before.contents, calls[p].content)
                after == heap'[calls[p].context].contents IN
            /\ IsSuffix(after, full)
            /\ SumSizes(full) <= before.maxTokens => after = full]_vars

\* C19 witness: two calls that ran together have returned and the context
\* holds their two different replies, nothing evicted.
C19_Witness ==
  \E i \in Ids :
    /\ ClosedBatch(i)
    /\ ~batch[i].evicted
    /\ Cardinality(Range(batch[i].replies)) = 2
    /\ heap[i].contents = batch[i].replies

\* C20 (as claimed): generate with no prompt and no non-empty context (no
\* contextId, or a context without contents) fails with the validation error
\* 'Either prompt or non-empty context is required' and issues no provider
\* call, whatever the model id.
C20_NoPromptIsValidationError ==
  [][\A p \in Procs :
       /\ \A m \in ModelIds :
            generate(p, null, noPrompt, m) =>
              /\ result'.value = "Either prompt or non-empty context is required"
              /\ requests'[p] = idle
       /\ (/\ requests[p].pc = "getContext"
           /\ requests[p].kind = "generate"
           /\ requests[p].context # null
           /\ requests[p].prompt = noPrompt
           /\ heap[requests[p].context].contents = <<>>
           /\ afterGetContext(p)) =>
            /\ result'.value = "Either prompt or non-empty context is required"
            /\ requests'[p] = idle]_vars

\* the first provider, in registration order, that lists modelId
FirstListing(modelId) ==
  LET hits == {n \in 1..Len(providers) : modelId \in providers[n].supportedModels} IN
  IF hits = {} THEN "none"
  ELSE providers[CHOOSE n \in hits : \A k \in hits : n <= k].name

\* C21: getProviderForModel(modelId) answers with the first provider in
\* registration order that lists modelId and with the no-provider error when
\* none does, gives the same answer for the same modelId on every call, and
\* leaves the registry as it is.
C21_ResolutionFirstMatch ==
  [][/\ \A m \in LookupIds :
          resolve(m) => (result'.value = FirstListing(m) /\ providers' = providers)
     /\ \A m \in LookupIds : Cardinality(answers'[m]) <= 1]_vars

\* C21 witness: a model that two providers list has been resolved twice, to
\* the earlier of them, and an unlisted one was turned down.
C21_Witness ==
  /\ "gpt-4" \in providers[2].supportedModels \cap providers[3].supportedModels
  /\ "gpt-4" \notin providers[1].supportedModels
  /\ answers["gpt-4"] = {"anthropic"}
  /\ answers["x"] = {"none"}

\* C22 (as claimed): a request that references a context id which does not
\* resolve to a live context (no record, or a record past its expiry) is
\* answered 404 with status "error": GET, well-formed PUT and DELETE on
\* /context/{id}, and POST /query and /generate with that contextId.
C22_DeadIdIs404 ==
  [][/\ \A i \in Ids :
          (~has(i) \/ Lapsed(i)) =>
            /\ httpGetContext(i) => res' = NotFound
            /\ httpDeleteContext(i) => res' = NotFound
            /\ \A b \in UpdateBodies :
                 (b[1] # "" /\ b[2] # undefined /\ httpUpdateContext(i, b[1], b[2])) =>
                   calls'[1].context = null
     /\ (calls[1].pc = "await" /\ calls[1].context = null
         /\ httpUpdateContextResume) => res' = NotFound
     /\ (requests[1].pc = "getContext" /\ requests[1].context = null
         /\ afterGetContext(1)) => res' = NotFound]_vars

\* What the code does: GET and DELETE on an id with no stored record are
\* answered 404 with status "error".
C22_MissingIdGetDelete ==
  [][\A i \in Ids :
       ~has(i) =>
         /\ httpGetContext(i) => res' = NotFound
         /\ httpDeleteContext(i) => res' = NotFound]_vars

\* C23: id, model, maxTokens and createdAt of a context object are what
\* createContext gave it for as long as the object exists, whatever
\* getContext, updateContext, query, generate and the sweep do, and every
\* stored record is stored under the key equal to its id.
C23_FixedAtCreation ==
  [][/\ \A i \in Ids :
          (IsObject(heap[i]) /\ IsObject(heap'[i])) =>
            /\ heap'[i].id = heap[i].id
            /\ heap'[i].model = heap[i].model
            /\ heap'[i].maxTokens = heap[i].maxTokens
            /\ heap'[i].createdAt = heap[i].createdAt
     /\ \A i \in Ids : has(i)' => heap'[contexts'[i]].id = i]_vars

\* C23 witness: a record created at time 0 has been read and updated later,
\* with eviction, and is stored under its id with the budget it was given.
C23_Witness ==
  \E i \in Ids :
    /\ has(i)
    /\ result = [op |-> "update", value |-> "context"]
    /\ heap[contexts[i]].id = i
    /\ heap[contexts[i]].createdAt = 0
    /\ heap[contexts[i]].updatedAt = 2
    /\ heap[contexts[i]].maxTokens = defaultMaxTokens
    /\ heap[contexts[i]].contents = <<P1, responseMessage(<<"h", "e", "l", "l", "o">>)>>

C25_QueryMessages ==
  [][/\ (/\ requests[1].pc = "getContext"
         /\ requests[1].kind = "query"
         /\ requests'[1].pc = "provider") =>
          LET context == requests[1].context IN
          /\ requests'[1].messages =
               Append(heap[context].contents,
                      [role |-> "user", content |-> Str(requests[1].prompt)])
          /\ heap'[context].contents = heap[context].contents
     /\ \A t \in Texts, m \in Models :
          (handleQuery(null, t, m) /\ requests'[1].pc = "provider") =>
            requests'[1].messages = <<[role |-> "user", content |-> Str(t)]>>
     /\ (requests[1].pc = "provider" /\ requests'[1].pc = "provider") =>
          requests'[1].messages = requests[1].messages]_vars

\* C25 witness: a query on a context of two entries has its provider call
\* in flight with the two entries and the user's text.
C25_Witness ==
  /\ requests[1].pc = "provider"
  /\ requests[1].kind = "query"
  /\ requests[1].context # null
  /\ requests[1].messages =
       <<P1, responseMessage(<<"o", "k">>), UserMessage(<<"h", "i">>)>>

\* C26 (as claimed): in every reachable state every stored record has the
\* sum of estimateSize over its contents at most its maxTokens, also right
\* after createContext with initial contents.
C26_BudgetAlways ==
  \A i \in Ids :
    has(i) =>
      SumSizes(heap[contexts[i]].contents) <= heap[contexts[i]].maxTokens

\* What the code does: the budget holds after every updateContext that
\* completed, for the record it updated.
C26_BudgetAfterUpdateOnly ==
  [][\A p \in Procs :
       Performs(p, Operations) =>
         SumSizes(heap'[calls[p].context].contents)
           <= heap'[calls[p].context].maxTokens]_vars

\* C27 (as claimed): when the context a query / generate read is no longer
\* stored as the provider answers (deleted or swept meanwhile), the call
\* goes on and returns the reply as success, its updateContext appends the
\* reply nowhere and stores nothing, and when the call has returned the store
\* holds no record for the id.
C27_ReplyDroppedAfterDelete ==
  [][\A p \in Procs :
       /\ \A content \in ReplyTexts :
            (/\ requests[p].pc = "provider"
             /\ requests[p].context # null
             /\ ~has(requests[p].id)
             /\ providerResponds(p, content)) =>
              (calls'[p].pc = "await" /\ calls'[p].context = null)
       /\ (/\ requests[p].pc = "updateContext"
           /\ requests[p].gone
           /\ updateContextResume(p)) =>
            (contexts' = contexts /\ heap' = heap)
       /\ (/\ requests[p].pc = "updateContext"
           /\ requests[p].gone
           /\ afterUpdateContext(p)) =>
            LET i == requests[p].id IN
            /\ result' = [op |-> "provider", value |-> "response"]
            /\ contexts'[i] = null]_vars

\* What the code does: the call goes on, its own updateContext changes
\* nothing, and it returns the reply as success.
C27_ReplyDroppedWhenMissing ==
  [][\A p \in Procs :
       /\ \A content \in ReplyTexts :
            (/\ requests[p].pc = "provider"
             /\ requests[p].context # null
             /\ ~has(requests[p].id)
             /\ providerResponds(p, content)) =>
              (calls'[p].pc = "await" /\ calls'[p].context = null)
       /\ (/\ requests[p].pc = "updateContext"
           /\ requests[p].gone
           /\ updateContextResume(p)) =>
            (contexts' = contexts /\ heap' = heap)
       /\ (/\ requests[p].pc = "updateContext"
           /\ requests[p].gone
           /\ afterUpdateContext(p)) =>
            result' = [op |-> "provider", value |-> "response"]]_vars


\* the intents processSapQuery's switch has a case for
HandledIntents == {"getPurchaseOrders", "getPurchaseOrderById",
                   "searchPurchaseOrders", "getSuppliers", "getMaterials"}

\* the query text names nothing a template of extractQueryIntent looks for
MatchesNoTemplate(queryText) ==
  LET text == toLowerCase(queryText)
  IN  /\ ~(includes(text, {"purchase order"})
             /\ includes(text, {"get", "show", "list"}))
      /\ ~includes(text, {"supplier", "vendor", "material", "product"})

\* C28: whatever the query text, processSapQuery is handed one of the five
\* intents its switch handles and never takes the 'Unknown SAP query intent'
\* branch; a text matching no template is routed to getPurchaseOrders.
C28_IntentHandled ==
  [][processSapQuery =>
       /\ routed'.intent \in HandledIntents
       /\ routed'.method = routed'.intent
       /\ routed'.method # "Unknown SAP query intent"
       /\ MatchesNoTemplate(sapQuery) =>
            routed'.intent = "getPurchaseOrders"]_vars

\* C28 witness: a text that mentions a PO number but no template ("hello PO
\* 7") has been routed to the default list
C28_Witness ==
  /\ sapQuery = <<"hello", "PO", "7">>
  /\ routed.intent = "getPurchaseOrders"
  /\ routed.method = "getPurchaseOrders"
  /\ routed.parameters = [limit |-> maxResultsPerRequest]


\* a step in which getPurchaseOrderById(id) is answered from the cache
AnsweredFromCache(id) ==
  \E p \in Procs :
     /\ getPurchaseOrderById(p, id)
     /\ sapCalls'[p] = idle
     /\ sapResult' = [op |-> "get", id |-> id, status |-> "success",
                      source |-> "cache"]

\* C29: getPurchaseOrderById(id) is answered with source 'cache' only from an
\* entry stamped less than cacheTtlMs ago, and never again once
\* deletePurchaseOrder(id) has returned true.
C29_CacheCoherent ==
  [][\A id \in PoIds :
       AnsweredFromCache(id) =>
         /\ cache[id].present /\ cache[id].stamped
         /\ now - cache[id].cachedAt < cacheTtlMs
         /\ ~poDeleted[id]]_vars

\* C29, what the code does: an answer from the cache comes from an entry
\* stamped less than cacheTtlMs ago
C29_CacheFresh ==
  [][\A id \in PoIds :
       AnsweredFromCache(id) =>
         /\ cache[id].present /\ cache[id].stamped
         /\ now - cache[id].cachedAt < cacheTtlMs]_vars


\* key k is presented as a Bearer token while authentication is required
Presents(k) ==
  \E path \in Paths :
    authenticate(TRUE, [scheme |-> "Bearer", key |-> k], path)

\* C30: once revokeApiKey(k) has returned true, k stays invalid whatever is
\* generated or revoked afterwards, and every authenticate call presenting k
\* with authentication required is answered 401 and does not call next();
\* revokeApiKey of an unknown key returns false and changes nothing.
C30_RevocationPermanent ==
  [][\A k \in Keys :
       /\ revoked[k] => /\ revoked'[k]
                        /\ apiKeys'[k] # NoKey
                        /\ ~apiKeys'[k].isValid
       /\ (revoked[k] /\ Presents(k)) =>
            authOutcome' = [op |-> "authenticate", key |-> k, status |-> "401"]
       /\ (apiKeys[k] = NoKey /\ revokeApiKey(k)) =>
            /\ authOutcome'.status = "false"
            /\ UNCHANGED <<apiKeys, revoked>>]_vars

\* C30 witness: k1 was generated and revoked, another key has been generated
\* and is valid, and k1 has just been presented and answered 401
C30_Witness ==
  /\ revoked["k1"]
  /\ apiKeys["k2"] # NoKey /\ apiKeys["k2"].isValid
  /\ authOutcome = [op |-> "authenticate", key |-> "k1", status |-> "401"]

============================================================================
